---- MODULE Spec2Model ----
(***************************************************************************)
(* Day-ahead clearing of the MIBEL market (PT and ES zones joined by one   *)
(* interconnector), as implemented by MIBEL_DAM_v1-2.py: the bid table is  *)
(* read, the periods are enumerated, and for every period a two-bus        *)
(* network is built from the bids, solved as a linear programme and        *)
(* interpreted into one Session Results row and one Trading Results row    *)
(* per bid.                                                                *)
(*                                                                         *)
(* Units: energies are integer MWh, prices integer EUR/MWh.  The price of  *)
(* a bid is the value of column BID PRICE (EUR/MWH) as the clearing loop   *)
(* reads it, i.e. after the tie-breaking perturbation of line 22.          *)
(***************************************************************************)
EXTENDS Integers, Sequences, FiniteSets

\* ------------------------------------------------------------------ bounds
NBids == 3
MaxPeriod == 2
MaxEnergy == 2
MaxInterconnection == 1

\* ------------------------------------------------------- program constants
MANDATORY_PRICE == 3880
DEFAULT_INTERCAP == 3800

Zones == {"PT", "ES"}
TransactionTypes == {"SELL", "BUY"}
Periods == 1..MaxPeriod

\* A cell of the INTERCONNECTION column: <<>> is a missing value (NaN),
\* <<c>> the capacity c.
NaN == <<>>
InterconnectionCells == {NaN} \cup {<<c>> : c \in 0..MaxInterconnection}

Bid(period, zone, type, e, price) ==
    [PERIOD |-> period, COUNTRY |-> zone, TYPE |-> type, ENERGY |-> e,
     PRICE |-> price]

\* Bid tables of a day: every row is one of four offers (a PT sale, a
\* mandatory PT purchase, a flexible ES purchase, an ES sale of no energy),
\* placed in any period, in any row order.
DayOffers ==
    {<<"PT", "SELL", 1, 1>>, <<"PT", "BUY", 1, MANDATORY_PRICE>>,
     <<"ES", "BUY", 1, 2>>, <<"ES", "SELL", 0, 1>>}

DayBids ==
    {Bid(period, o[1], o[2], o[3], o[4]) : period \in Periods, o \in DayOffers}

DayTables == [1..NBids -> DayBids]

\* Bid tables of one period: every row is an offer of positive energy in
\* either zone: a cheap or a dear sale, a flexible purchase priced between
\* the two, or a mandatory purchase.  The clearing treats the rows of a
\* period as a set (only the row labels depend on their order), so one table
\* stands for all its row permutations: the rows are listed by ascending Rank.
MarketOffers ==
    {<<"SELL", 1>>, <<"SELL", 3>>, <<"BUY", 2>>, <<"BUY", MANDATORY_PRICE>>}

MarketBids ==
    {Bid(1, zone, o[1], e, o[2]) :
        zone \in Zones, e \in 1..MaxEnergy, o \in MarketOffers}

Rank(b) ==
    (((IF b.COUNTRY = "PT" THEN 0 ELSE 1) * 2
      + (IF b.TYPE = "SELL" THEN 0 ELSE 1)) * (MaxEnergy + 1) + b.ENERGY)
    * (MANDATORY_PRICE + 1) + b.PRICE

Ranked(table) ==
    \A i \in 1..(Len(table) - 1) : Rank(table[i]) <= Rank(table[i + 1])

VARIABLES
    df,                 \* the bid table: row i is df[i]
    has_interconnection,\* "INTERCONNECTION" in df.columns
    hours,              \* the periods to simulate, in loop order
    hi,                 \* position of the per-hour loop in hours (0: not started)
    pc,                 \* "loop" | "optimize" | "results" | "trading" | "done" | "failed"
    intercap,           \* the interconnection cell read for the current period
    n,                  \* the period's network (generators, loads, link)
    sol,                \* the solver's output for n
    session_results,
    trading_results

vars == <<df, has_interconnection, hours, hi, pc, intercap, n, sol,
          session_results, trading_results>>

\* ----------------------------------------------------------------- helpers
Max(a, b) == IF a >= b THEN a ELSE b
Min(a, b) == IF a <= b THEN a ELSE b
Abs(x) == IF x < 0 THEN -x ELSE x

RECURSIVE SumSeq(_)
SumSeq(s) == IF s = <<>> THEN 0 ELSE Head(s) + SumSeq(Tail(s))

\* ------------------------------------------------------ 2. hours to simulate
RECURSIVE SortAsc(_)
SortAsc(S) ==
    IF S = {} THEN <<>>
    ELSE LET m == CHOOSE x \in S : \A y \in S : x <= y
         IN <<m>> \o SortAsc(S \ {m})

\* faulty variant: the periods in table order, sort_values left out
RECURSIVE FirstSeen(_, _, _)
FirstSeen(table, i, seen) ==
    IF i > Len(table) THEN <<>>
    ELSE IF table[i].PERIOD \in seen THEN FirstSeen(table, i + 1, seen)
    ELSE <<table[i].PERIOD>> \o FirstSeen(table, i + 1, seen \cup {table[i].PERIOD})

HoursUnsorted(table) == FirstSeen(table, 1, {})

\* dropna / drop_duplicates(PERIOD) / sort_values(PERIOD)
Hours(table) == SortAsc({table[i].PERIOD : i \in DOMAIN table})

\* --------------------------------------------------- 4. per-period bid split
RECURSIVE RowsFrom(_, _, _)
RowsFrom(table, period, i) ==
    IF i > Len(table) THEN <<>>
    ELSE (IF table[i].PERIOD = period THEN <<i>> ELSE <<>>)
         \o RowsFrom(table, period, i + 1)

\* df_h: the row labels of the bids of this period, in table order
DfH(period) == RowsFrom(df, period, 1)

RECURSIVE Split(_, _, _)
Split(rows, zone, type) ==
    IF rows = <<>> THEN <<>>
    ELSE (IF df[Head(rows)].COUNTRY = zone /\ df[Head(rows)].TYPE = type
          THEN <<Head(rows)>> ELSE <<>>)
         \o Split(Tail(rows), zone, type)

\* ------------------------------------------------------- network components
Generator(kind, zone, i, e, lo_pu, hi_pu, cost) ==
    [name |-> <<kind, zone, i>>, bus |-> zone, p_nom |-> e,
     p_min_pu |-> lo_pu, p_max_pu |-> hi_pu, marginal_cost |-> cost]

Load(zone, i, e) == [name |-> <<"BUY", zone, i>>, bus |-> zone, p_set |-> e]

\* faulty variant: the bid price is not passed on, marginal_cost stays at its default 0
RECURSIVE add_sell_costless(_, _)
add_sell_costless(rows, zone) ==
    IF rows = <<>> THEN <<>>
    ELSE LET i == Head(rows)
             e == df[i].ENERGY
         IN (IF e <= 0 THEN <<>>
             ELSE <<Generator("SELL", zone, i, e, 0, 1, 0)>>)
            \o add_sell_costless(Tail(rows), zone)

RECURSIVE add_sell(_, _)
add_sell(rows, zone) ==
    IF rows = <<>> THEN <<>>
    ELSE LET i == Head(rows)
             e == df[i].ENERGY
         IN (IF e <= 0 THEN <<>>
             ELSE <<Generator("SELL", zone, i, e, 0, 1, df[i].PRICE)>>)
            \o add_sell(Tail(rows), zone)

\* faulty variant: a bid priced exactly at the threshold is taken as flexible
IsMandatoryStrict(price) == price > MANDATORY_PRICE

IsMandatory(price) == price >= MANDATORY_PRICE

\* the Load entries add_buy creates
RECURSIVE add_buy_loads(_, _)
add_buy_loads(rows, zone) ==
    IF rows = <<>> THEN <<>>
    ELSE LET i == Head(rows)
             e == df[i].ENERGY
         IN (IF e > 0 /\ IsMandatory(df[i].PRICE)
             THEN <<Load(zone, i, e)>> ELSE <<>>)
            \o add_buy_loads(Tail(rows), zone)

\* the FLEX Generator entries add_buy creates
RECURSIVE add_buy_flex(_, _)
add_buy_flex(rows, zone) ==
    IF rows = <<>> THEN <<>>
    ELSE LET i == Head(rows)
             e == df[i].ENERGY
         IN (IF e > 0 /\ ~IsMandatory(df[i].PRICE)
             THEN <<Generator("FLEX", zone, i, e, -1, 0, df[i].PRICE)>>
             ELSE <<>>)
            \o add_buy_flex(Tail(rows), zone)

\* intercap = df_h["INTERCONNECTION"].iloc[0] if the column exists else 3800
InterCap(cell) == IF has_interconnection THEN cell ELSE <<DEFAULT_INTERCAP>>

\* faulty variant: p_min_pu left at its default 0, the link carries PT -> ES only
LinkOneWay(cap) == [p_nom |-> cap, p_min_pu |-> 0, p_max_pu |-> 1]

Link(cap) == [p_nom |-> cap, p_min_pu |-> -1, p_max_pu |-> 1]

EmptyNetwork == [generators |-> <<>>, loads |-> <<>>, link |-> Link(<<0>>)]

BuildNetwork(period, cap) ==
    LET rows == DfH(period)
        pt_sell == Split(rows, "PT", "SELL")
        es_sell == Split(rows, "ES", "SELL")
        pt_buy == Split(rows, "PT", "BUY")
        es_buy == Split(rows, "ES", "BUY")
    IN [generators |-> add_sell(pt_sell, "PT") \o add_sell(es_sell, "ES")
                       \o add_buy_flex(pt_buy, "PT") \o add_buy_flex(es_buy, "ES"),
        loads |-> add_buy_loads(pt_buy, "PT") \o add_buy_loads(es_buy, "ES"),
        link |-> Link(cap)]

\* ------------------------------------------------------------ the optimiser
\* n.optimize(solver_name="glpk"): minimise sum(marginal_cost * p) subject to
\* the bounds of every generator and of the link and to the balance of both
\* buses.  The solver returns a primal-dual optimal pair: a dispatch within
\* bounds that balances both buses, and bus prices (the duals of the balance
\* constraints) that satisfy complementary slackness with it.  Where the
\* optimum is not unique the solver may return any of them.
PLower(g) == g.p_min_pu * g.p_nom
PUpper(g) == g.p_max_pu * g.p_nom

RECURSIVE BusSum(_, _, _)
BusSum(gs, p, zone) ==
    IF gs = <<>> THEN 0
    ELSE (IF Head(gs).bus = zone THEN Head(p) ELSE 0)
         + BusSum(Tail(gs), Tail(p), zone)

RECURSIVE LoadSum(_, _)
LoadSum(ls, zone) ==
    IF ls = <<>> THEN 0
    ELSE (IF Head(ls).bus = zone THEN Head(ls).p_set ELSE 0)
         + LoadSum(Tail(ls), zone)

\* balance of bus PT (bus0 of the link): generation - load - p0 = 0
FlowOf(net, p) == BusSum(net.generators, p, "PT") - LoadSum(net.loads, "PT")

LinkLower(net) == net.link.p_min_pu * net.link.p_nom[1]
LinkUpper(net) == net.link.p_max_pu * net.link.p_nom[1]

Balanced(net, p) ==
    LET f == FlowOf(net, p)
    IN /\ LinkLower(net) <= f
       /\ f <= LinkUpper(net)
       \* balance of bus ES (bus1): generation - load + p0 = 0
       /\ BusSum(net.generators, p, "ES") - LoadSum(net.loads, "ES") + f = 0

\* a link of capacity NaN gives the solver no problem it can solve
WellPosed(net) == net.link.p_nom # NaN

\* the least and the greatest net injection the generators of a bus can give
NetLower(net, zone) ==
    BusSum(net.generators, [k \in DOMAIN net.generators |-> PLower(net.generators[k])], zone)
    - LoadSum(net.loads, zone)
NetUpper(net, zone) ==
    BusSum(net.generators, [k \in DOMAIN net.generators |-> PUpper(net.generators[k])], zone)
    - LoadSum(net.loads, zone)

\* some flow within the link's bounds is an injection PT can give and ES can take
Feasible(net) ==
    /\ WellPosed(net)
    /\ Max(Max(LinkLower(net), NetLower(net, "PT")), -NetUpper(net, "ES"))
         <= Min(Min(LinkUpper(net), NetUpper(net, "PT")), -NetLower(net, "ES"))

PriceCandidates(net) ==
    {net.generators[k].marginal_cost : k \in DOMAIN net.generators} \cup {0}

\* complementary slackness of a generator: above its lower bound only if it
\* costs no more than the price of its bus, below its upper bound only if it
\* costs no less
SlackRange(g, price) ==
    IF g.marginal_cost < price[g.bus] THEN {PUpper(g)}
    ELSE IF g.marginal_cost > price[g.bus] THEN {PLower(g)}
    ELSE PLower(g)..PUpper(g)

RECURSIVE SlackDispatches(_, _)
SlackDispatches(gs, price) ==
    IF gs = <<>> THEN {<<>>}
    ELSE {<<x>> \o rest : x \in SlackRange(Head(gs), price),
                          rest \in SlackDispatches(Tail(gs), price)}

\* complementary slackness of the link: the flow leaves its lower bound only
\* if PT is no dearer than ES, and its upper bound only if PT is no cheaper
LinkSlack(net, f, price) ==
    /\ f > LinkLower(net) => price["PT"] <= price["ES"]
    /\ f < LinkUpper(net) => price["PT"] >= price["ES"]

LoadsP(net) == [k \in DOMAIN net.loads |-> net.loads[k].p_set]

Solution(net, p, price) ==
    [p |-> p, loads_p |-> LoadsP(net), p0 |-> FlowOf(net, p),
     marginal_price |-> price]

Optimal(net) ==
    UNION {{Solution(net, p, price) :
               p \in {q \in SlackDispatches(net.generators, price) :
                        /\ Balanced(net, q)
                        /\ LinkSlack(net, FlowOf(net, q), price)}} :
           price \in [Zones -> PriceCandidates(net)]}

NoSolution == [p |-> <<>>, loads_p |-> <<>>, p0 |-> 0,
               marginal_price |-> [z \in Zones |-> 0]]

\* ------------------------------------------------------ result interpreter
\* gen_p[gen_p > 0].idxmax(): the first generator of the largest positive output
LastSupply(net, p) ==
    IF \E k \in DOMAIN p : p[k] > 0
    THEN LET k == CHOOSE a \in DOMAIN p :
                     /\ p[a] > 0
                     /\ \A b \in DOMAIN p : p[b] <= p[a]
                     /\ \A b \in 1..(a - 1) : p[b] < p[a]
         IN net.generators[k].name
    ELSE <<>>

\* gen_p[gen_p < 0].idxmin(): the first generator of the most negative output
LastDemand(net, p) ==
    IF \E k \in DOMAIN p : p[k] < 0
    THEN LET k == CHOOSE a \in DOMAIN p :
                     /\ p[a] < 0
                     /\ \A b \in DOMAIN p : p[b] >= p[a]
                     /\ \A b \in 1..(a - 1) : p[b] > p[a]
         IN net.generators[k].name
    ELSE <<>>

\* n.loads_t.p.loc[0].sum()
TotalDemand(s) == SumSeq(s.loads_p)

\* n.generators_t.p.loc[0][n.generators.p_nom > 0].sum()
TotalSupply(net, s) ==
    SumSeq([k \in DOMAIN s.p |->
                IF net.generators[k].p_nom > 0 THEN s.p[k] ELSE 0])

SessionRow(period, net, s) ==
    [PERIOD |-> period,
     Price_PT |-> s.marginal_price["PT"],
     Price_ES |-> s.marginal_price["ES"],
     ClearingPrice |-> Max(s.marginal_price["PT"], s.marginal_price["ES"]),
     PT_ES_Flow |-> Max(s.p0, 0),
     ES_PT_Flow |-> Max(-s.p0, 0),
     TotalDemand |-> TotalDemand(s),
     TotalSupply |-> TotalSupply(net, s),
     TotalTraded |-> Min(TotalDemand(s), TotalSupply(net, s)),
     LastDemand |-> LastDemand(net, s.p),
     LastSupply |-> LastSupply(net, s.p)]

\* energies are whole MWh: a magnitude exceeds the tolerance 1e-6 iff it is > 0
WasTraded(energy) == IF energy > 0 THEN 1 ELSE 0

\* faulty variant: a BUY row is looked up among the generators, as a SELL row is
TradedEnergyFromGenerators(i, net, s) ==
    LET unit_name == <<df[i].TYPE, df[i].COUNTRY, i>>
    IN IF \E k \in DOMAIN net.generators : net.generators[k].name = unit_name
       THEN Abs(s.p[CHOOSE k \in DOMAIN net.generators :
                        net.generators[k].name = unit_name])
       ELSE 0

\* lines 216-227: the traded energy of row i, looked up by unit name
TradedEnergy(i, net, s) ==
    LET unit_name == <<df[i].TYPE, df[i].COUNTRY, i>>
    IN IF df[i].TYPE = "SELL"
       THEN IF \E k \in DOMAIN net.generators : net.generators[k].name = unit_name
            THEN Abs(s.p[CHOOSE k \in DOMAIN net.generators :
                             net.generators[k].name = unit_name])
            ELSE 0
       ELSE IF df[i].TYPE = "BUY"
       THEN IF \E k \in DOMAIN net.loads : net.loads[k].name = unit_name
            THEN s.loads_p[CHOOSE k \in DOMAIN net.loads :
                               net.loads[k].name = unit_name]
            ELSE 0
       ELSE 0

TradingRow(period, i, net, s) ==
    [PERIOD |-> period,
     Row |-> i,
     Country |-> df[i].COUNTRY,
     TransactionType |-> df[i].TYPE,
     BidPrice |-> df[i].PRICE,
     BidEnergy |-> df[i].ENERGY,
     WasTraded |-> WasTraded(TradedEnergy(i, net, s)),
     ClearingPrice |-> IF df[i].COUNTRY = "PT" THEN s.marginal_price["PT"]
                       ELSE s.marginal_price["ES"],
     TradedEnergy |-> TradedEnergy(i, net, s)]

RECURSIVE TradingRows(_, _, _, _)
TradingRows(period, rows, net, s) ==
    IF rows = <<>> THEN <<>>
    ELSE <<TradingRow(period, Head(rows), net, s)>>
         \o TradingRows(period, Tail(rows), net, s)

\* ------------------------------------------------------------------- state
InitWith(tables) ==
    /\ df \in tables
    /\ has_interconnection \in BOOLEAN
    /\ hours = Hours(df)
    /\ hi = 0
    /\ pc = "loop"
    /\ intercap = NaN
    /\ n = EmptyNetwork
    /\ sol = NoSolution
    /\ session_results = <<>>
    /\ trading_results = <<>>

Init == InitWith(DayTables)

InitMarket ==
    /\ InitWith([1..NBids -> MarketBids])
    /\ Ranked(df)

\* lines 48-138: the loop takes the next period and builds its network
Build ==
    /\ pc = "loop"
    /\ hi < Len(hours)
    /\ \E cell \in InterconnectionCells :
          /\ intercap' = InterCap(cell)
          /\ n' = BuildNetwork(hours[hi + 1], InterCap(cell))
    /\ hi' = hi + 1
    /\ pc' = "optimize"
    /\ sol' = NoSolution
    /\ UNCHANGED <<df, has_interconnection, hours, session_results, trading_results>>

\* line 143: the solver finds an optimum
Optimize ==
    /\ pc = "optimize"
    /\ Feasible(n)
    /\ \E s \in Optimal(n) : sol' = s
    /\ pc' = "results"
    /\ UNCHANGED <<df, has_interconnection, hours, hi, intercap, n,
                   session_results, trading_results>>

\* faulty variant: the failure is swallowed and the loop goes on to the next period
OptimizeSkips ==
    /\ pc = "optimize"
    /\ ~Feasible(n)
    /\ pc' = "loop"
    /\ UNCHANGED <<df, has_interconnection, hours, hi, intercap, n, sol,
                   session_results, trading_results>>

\* lines 143-148: the solver finds no optimum: no solution is assigned to the
\* network, reading the price of bus PT raises and the run ends
OptimizeFails ==
    /\ pc = "optimize"
    /\ ~Feasible(n)
    /\ pc' = "failed"
    /\ UNCHANGED <<df, has_interconnection, hours, hi, intercap, n, sol,
                   session_results, trading_results>>

\* lines 148-210: prices, flow, aggregates, one Session Results row
Session ==
    /\ pc = "results"
    /\ session_results' = Append(session_results, SessionRow(hours[hi], n, sol))
    /\ pc' = "trading"
    /\ UNCHANGED <<df, has_interconnection, hours, hi, intercap, n, sol,
                   trading_results>>

\* lines 215-243: one Trading Results row per bid of the period
Trading ==
    /\ pc = "trading"
    /\ trading_results' =
          trading_results \o TradingRows(hours[hi], DfH(hours[hi]), n, sol)
    /\ pc' = "loop"
    /\ UNCHANGED <<df, has_interconnection, hours, hi, intercap, n, sol,
                   session_results>>

\* lines 248-255: the loop is over, both tables are written
Export ==
    /\ pc = "loop"
    /\ hi = Len(hours)
    /\ pc' = "done"
    /\ UNCHANGED <<df, has_interconnection, hours, hi, intercap, n, sol,
                   session_results, trading_results>>

Next == Build \/ Optimize \/ OptimizeFails \/ Session \/ Trading \/ Export

Spec == Init /\ [][Next]_vars

SpecMarket == InitMarket /\ [][Next]_vars

\* =================================================================== claims
\* every feasible network has an optimum among the candidate prices
SolverTotal == (pc = "optimize" /\ Feasible(n)) => Optimal(n) # {}

\* the network of the current period is built
Built == hi >= 1
\* the current period is solved: sol is the solver's output for n
Solved == pc \in {"results", "trading"} \/ (pc \in {"loop", "done"} /\ hi >= 1)
\* the current period is fully interpreted: its rows are in both tables
Interpreted == pc \in {"loop", "done"} /\ hi >= 1

\* the decision variables built from row i: generators and loads
GensOf(net, i) == {k \in DOMAIN net.generators : net.generators[k].name[3] = i}
LoadsOf(net, i) == {k \in DOMAIN net.loads : net.loads[k].name[3] = i}

\* the dispatch magnitude of the decision variable built from row i (0: none)
Dispatched(i) ==
    IF GensOf(n, i) # {} THEN Abs(sol.p[CHOOSE k \in GensOf(n, i) : TRUE])
    ELSE IF LoadsOf(n, i) # {} THEN Abs(sol.loads_p[CHOOSE k \in LoadsOf(n, i) : TRUE])
    ELSE 0

\* the Trading Results rows of the current period
CurrentTrading ==
    {j \in DOMAIN trading_results : trading_results[j].PERIOD = hours[hi]}

\* the Session Results row of the current period
CurrentSession == session_results[Len(session_results)]

\* C1: for every bid of a solved period the Trading Results row records
\* Was Traded = 1 exactly when the dispatch magnitude of the bid's decision
\* variable is positive, Traded Energy equal to that magnitude (0 without a
\* variable) and Clearing Price equal to the price of the bid's own zone.
C1_TradingRowMatchesDispatch ==
    Interpreted =>
        \A j \in CurrentTrading :
            LET r == trading_results[j]
            IN /\ r.TradedEnergy = Dispatched(r.Row)
               /\ r.WasTraded = (IF Dispatched(r.Row) > 0 THEN 1 ELSE 0)
               /\ r.ClearingPrice = sol.marginal_price[r.Country]

\* C2: every bid of the period with positive energy produces exactly one
\* decision variable, attached to its own zone: a supply unit [0, energy] at
\* the bid price for a SELL, a fixed load of its energy for a BUY priced
\* >= 3880, a unit [-energy, 0] at the bid price for a BUY priced below; a
\* bid of no energy or of another period produces none.
C2_OneVariablePerBid ==
    Built =>
        \A i \in DOMAIN df :
            LET b == df[i]
                G == GensOf(n, i)
                L == LoadsOf(n, i)
            IN IF b.PERIOD = hours[hi] /\ b.ENERGY > 0
               THEN /\ Cardinality(G) + Cardinality(L) = 1
                    /\ \A k \in G :
                          LET g == n.generators[k]
                          IN /\ g.bus = b.COUNTRY
                             /\ g.marginal_cost = b.PRICE
                             /\ IF b.TYPE = "SELL"
                                THEN PLower(g) = 0 /\ PUpper(g) = b.ENERGY
                                ELSE /\ b.TYPE = "BUY" /\ b.PRICE < 3880
                                     /\ PLower(g) = -b.ENERGY /\ PUpper(g) = 0
                    /\ \A k \in L :
                          /\ b.TYPE = "BUY" /\ b.PRICE >= 3880
                          /\ n.loads[k].bus = b.COUNTRY
                          /\ n.loads[k].p_set = b.ENERGY
               ELSE G = {} /\ L = {}

C2_Witness ==
    /\ pc = "optimize"
    /\ \E i, j, k \in DOMAIN df :
          /\ df[i].TYPE = "SELL" /\ GensOf(n, i) # {}
          /\ df[j].TYPE = "BUY" /\ LoadsOf(n, j) # {}
          /\ df[k].TYPE = "BUY" /\ GensOf(n, k) # {}

\* the summed magnitude of the dispatch of the generators of one kind
RECURSIVE KindSum(_, _, _)
KindSum(gs, p, kind) ==
    IF gs = <<>> THEN 0
    ELSE (IF Head(gs).name[1] = kind THEN Abs(Head(p)) ELSE 0)
         + KindSum(Tail(gs), Tail(p), kind)

\* C3: Total Demand of the period's Session Results row is the sum of the
\* mandatory loads plus the summed absolute dispatch of the flexible BUY
\* units, over both zones.
C3_TotalDemandCountsFlexible ==
    Interpreted =>
        CurrentSession.TotalDemand
            = SumSeq(sol.loads_p) + KindSum(n.generators, sol.p, "FLEX")

\* C4: Total Supply of the period's Session Results row is the summed dispatch
\* of the SELL units only, over both zones, and is >= 0.
C4_TotalSupplyIsSellOnly ==
    Interpreted =>
        /\ CurrentSession.TotalSupply = KindSum(n.generators, sol.p, "SELL")
        /\ CurrentSession.TotalSupply >= 0

\* C5: a period the solver cannot solve ends the run in that period: the run
\* stops at it (hi names it), no Session Results row and no Trading Results
\* row of it exists, no price is substituted, and no later step skips or
\* retries it.
C5_FailedState ==
    pc = "failed" =>
        /\ ~Feasible(n)
        /\ sol = NoSolution
        /\ Len(session_results) = hi - 1
        /\ \A k \in DOMAIN session_results : session_results[k].PERIOD # hours[hi]
        /\ \A j \in DOMAIN trading_results : trading_results[j].PERIOD # hours[hi]

C5_FailedStep ==
    /\ (pc = "optimize" /\ ~Feasible(n)) =>
          /\ pc' = "failed"
          /\ UNCHANGED <<hi, sol, session_results, trading_results>>
    /\ pc # "failed"

C6_PricesDifferOnlyIfCongested ==
    (Solved /\ pc # "results") =>
        LET r == CurrentSession
        IN r.PT_ES_Flow + r.ES_PT_Flow # n.link.p_nom[1] => r.Price_PT = r.Price_ES

\* the link carries 1 MWh of its 3800: both zones at the price of the dear PT sale
C6_Witness ==
    /\ Interpreted
    /\ n.link.p_nom[1] = DEFAULT_INTERCAP
    /\ CurrentSession.PT_ES_Flow = 1
    /\ CurrentSession.Price_PT = 3
    /\ CurrentSession.Price_ES = 3

\* C7: in every solved period every mandatory BUY bid (price >= 3880,
\* energy > 0) is served in full: its load is dispatched at its bid energy,
\* and its Trading Results row says so.
C7_MandatoryServedInFull ==
    /\ Solved =>
          \A i \in DOMAIN df :
              (/\ df[i].PERIOD = hours[hi]
               /\ df[i].TYPE = "BUY" /\ df[i].PRICE >= 3880 /\ df[i].ENERGY > 0)
              => \E k \in DOMAIN n.loads :
                    /\ n.loads[k].name = <<"BUY", df[i].COUNTRY, i>>
                    /\ sol.loads_p[k] = df[i].ENERGY
    /\ Interpreted =>
          \A j \in CurrentTrading :
              LET r == trading_results[j]
              IN (r.TransactionType = "BUY" /\ r.BidPrice >= 3880 /\ r.BidEnergy > 0)
                 => r.TradedEnergy = r.BidEnergy /\ r.WasTraded = 1

\* a mandatory ES purchase of 2 MWh served over a congested link of 1 MWh
C7_Witness ==
    /\ Interpreted
    /\ n.link.p_nom[1] = 1
    /\ CurrentSession.PT_ES_Flow = 1
    /\ \E j \in CurrentTrading :
          LET r == trading_results[j]
          IN /\ r.TransactionType = "BUY" /\ r.BidPrice >= 3880
             /\ r.Country = "ES" /\ r.BidEnergy = 2 /\ r.TradedEnergy = 2

\* C8: a missing interconnection capacity (no INTERCONNECTION column, or no
\* value for the period) gives a link of capacity 3800 and a problem the
\* solver can take; otherwise the capacity is the period's own value and the
\* flow stays within [-capacity, capacity].
C8_FallbackWhenCapacityMissing ==
    Built =>
        IF ~has_interconnection \/ intercap = NaN
        THEN n.link.p_nom = <<DEFAULT_INTERCAP>> /\ WellPosed(n)
        ELSE /\ n.link.p_nom = intercap
             /\ Solved => Abs(sol.p0) <= intercap[1]

\* C9: periods are processed one at a time in ascending PERIOD order: the
\* Session Results hold one row for each of the k smallest distinct PERIOD
\* values, ascending; rows once appended never change; the Trading Results
\* rows of a period come after its session row and are complete before the
\* next period's problem is built.
PeriodSet == {df[i].PERIOD : i \in DOMAIN df}
KthPeriod(k) ==
    CHOOSE q \in PeriodSet : Cardinality({x \in PeriodSet : x < q}) = k - 1
RowCount(period) == Cardinality({i \in DOMAIN df : df[i].PERIOD = period})
TradingCount(period) ==
    Cardinality({j \in DOMAIN trading_results : trading_results[j].PERIOD = period})

C9_State ==
    /\ Len(session_results) <= Cardinality(PeriodSet)
    /\ \A k \in DOMAIN session_results : session_results[k].PERIOD = KthPeriod(k)
    /\ \A j \in DOMAIN trading_results :
          \E k \in DOMAIN session_results :
              session_results[k].PERIOD = trading_results[j].PERIOD
    /\ \A j \in 1..(Len(trading_results) - 1) :
          trading_results[j].PERIOD <= trading_results[j + 1].PERIOD
    /\ pc = "optimize" =>
          /\ Len(session_results) = hi - 1
          /\ \A k \in DOMAIN session_results :
                TradingCount(session_results[k].PERIOD)
                    = RowCount(session_results[k].PERIOD)

C9_Step ==
    /\ Len(session_results') \in {Len(session_results), Len(session_results) + 1}
    /\ SubSeq(session_results', 1, Len(session_results)) = session_results
    /\ Len(trading_results') >= Len(trading_results)
    /\ SubSeq(trading_results', 1, Len(trading_results)) = trading_results

C9_SequentialAscending == [](C9_State) /\ [][C9_Step]_vars

\* a table whose first row is of period 2 and second of period 1, fully run
C9_Witness ==
    /\ pc = "done"
    /\ df[1].PERIOD = 2 /\ df[2].PERIOD = 1
    /\ Len(session_results) = 2
    /\ Len(trading_results) = Len(df)

\* C10: SELL bids of a zone are dispatched in merit order and the marginal
\* unit sets the price: a SELL bid with positive dispatch has every strictly
\* cheaper SELL bid of its zone dispatched in full, and a partially
\* dispatched SELL bid is priced at its own bid price.
C10_MeritOrder ==
    Interpreted =>
        \A j \in CurrentTrading :
            LET a == trading_results[j]
            IN a.TransactionType = "SELL" =>
                 /\ \A m \in CurrentTrading :
                       LET b == trading_results[m]
                       IN (/\ b.TransactionType = "SELL" /\ b.Country = a.Country
                           /\ b.TradedEnergy > 0 /\ a.BidPrice < b.BidPrice)
                          => a.TradedEnergy = a.BidEnergy
                 /\ (0 < a.TradedEnergy /\ a.TradedEnergy < a.BidEnergy)
                       => a.ClearingPrice = a.BidPrice

\* two PT sales at 1 and 3 against a mandatory PT purchase: the cheap one in
\* full, the dear one in part, Price_PT = 3
C10_Witness ==
    /\ Interpreted
    /\ CurrentSession.Price_PT = 3
    /\ \E j, m \in CurrentTrading :
          LET a == trading_results[j]
              b == trading_results[m]
          IN /\ a.TransactionType = "SELL" /\ a.Country = "PT" /\ a.BidPrice = 1
             /\ a.TradedEnergy = a.BidEnergy
             /\ b.TransactionType = "SELL" /\ b.Country = "PT" /\ b.BidPrice = 3
             /\ b.BidEnergy = 2 /\ b.TradedEnergy = 1
====
